---- MODULE Spec2Model ----
(***************************************************************************)
(* Relational model of backend/recipes/models.py (foodgram).               *)
(*                                                                         *)
(* The state is the content of the nine tables the module declares or      *)
(* references.  Entity tables (Tag, MeasurementUnit, Ingredient, Recipe)   *)
(* are functions from primary key to row; the user table is the set of     *)
(* primary keys of the user model; the four association tables are         *)
(* multisets of rows (row -> number of copies), their surrogate key being  *)
(* abstracted.  An operation validates the field values, then writes under *)
(* the declared foreign keys and unique constraints; a deletion follows    *)
(* the declared on_delete rules.  `last` is the outcome of the most recent *)
(* operation: its name, the error raised ("OK" if none; a database        *)
(* IntegrityError is named by its kind, UniqueViolation or                 *)
(* ForeignKeyViolation) and, for a deletion, the number of rows removed.   *)
(***************************************************************************)
EXTENDS Integers, FiniteSets, Sequences, TLC

VARIABLES users, tags, units, ingredients, recipes,
          recipe_tags, recipe_ingredients, favorites, carts, last

vars == <<users, tags, units, ingredients, recipes,
          recipe_tags, recipe_ingredients, favorites, carts, last>>

tables == <<users, tags, units, ingredients, recipes,
            recipe_tags, recipe_ingredients, favorites, carts>>

(* ------------------------------ bounds --------------------------------- *)

\* the database holds at most MaxRows rows, all tables together
MaxRows == 5
\* names, slugs and colours the callers choose from
MaxNames == 2
\* the largest ingredient amount a caller asks for
MaxAmount == 2

\* primary keys each table draws from; a new row takes the least free key
UserIds == 1..2
TagIds == 1..2
UnitIds == 1..2
IngredientIds == 1..2
RecipeIds == 1..2
Names == 1..MaxNames

(* ------------------------- field validation ---------------------------- *)

SmallIntMax == 32767

HexDigits == <<"0", "1", "2", "3", "4", "5", "6", "7", "8", "9",
               "a", "b", "c", "d", "e", "f">>

IsHexDigit(ch) == \E k \in DOMAIN HexDigits : HexDigits[k] = ch

HEXColorValidator(c) ==
    /\ Len(c) \in {4, 7}
    /\ c[1] = "#"
    /\ \A k \in 2..Len(c) : IsHexDigit(c[k])

PositiveSmallIntegerField(v) == v >= 0 /\ v <= SmallIntMax

MinValueValidator(limit, v) == v >= limit

CookingTimeValid(v) == PositiveSmallIntegerField(v)

AmountValid_NoMinValue(v) == PositiveSmallIntegerField(v)

AmountValid(v) == PositiveSmallIntegerField(v) /\ MinValueValidator(1, v)

(* ----------------------------- tables ---------------------------------- *)

EmptyTable == <<>>

NewId(t, ids) == CHOOSE i \in ids \ DOMAIN t : \A j \in ids \ DOMAIN t : i <= j

Put(t, k, row) == [x \in DOMAIN t \cup {k} |-> IF x = k THEN row ELSE t[x]]

Drop(t, ks) == [x \in DOMAIN t \ ks |-> t[x]]

Insert(b, row) ==
    [x \in DOMAIN b \cup {row} |->
        IF x = row THEN (IF row \in DOMAIN b THEN b[row] + 1 ELSE 1) ELSE b[x]]

Remove(b, row) ==
    IF b[row] > 1 THEN [b EXCEPT ![row] = @ - 1] ELSE Drop(b, {row})

RECURSIVE Sum(_, _)
Sum(f, S) == IF S = {} THEN 0
             ELSE LET x == CHOOSE y \in S : TRUE IN f[x] + Sum(f, S \ {x})

Count(b, S) == Sum(b, S)

Size(b) == Count(b, DOMAIN b)

TotalRows ==
    Cardinality(users) + Cardinality(DOMAIN tags) + Cardinality(DOMAIN units)
    + Cardinality(DOMAIN ingredients) + Cardinality(DOMAIN recipes)
    + Size(recipe_tags) + Size(recipe_ingredients) + Size(favorites) + Size(carts)

HasRoom == TotalRows < MaxRows

Outcome(op, err, n) == [op |-> op, err |-> err, n |-> n]

Fail(op, err) == /\ last' = Outcome(op, err, 0)
                 /\ UNCHANGED tables

Init ==
    /\ users = {}
    /\ tags = EmptyTable
    /\ units = EmptyTable
    /\ ingredients = EmptyTable
    /\ recipes = EmptyTable
    /\ recipe_tags = EmptyTable
    /\ recipe_ingredients = EmptyTable
    /\ favorites = EmptyTable
    /\ carts = EmptyTable
    /\ last = Outcome("init", "OK", 0)

(* --------------------- relations (foreign keys) ------------------------ *)

IngredientsOfUnit_Unprotected(m) == {}

RecipesOfAuthor_NoCascade(us) == {}

RecipeIngredientsOfIngredient_NoCascade(i) == {}

RecipeToUserOfUser_NoCascade(b, us) == {}

RecipeToUserOfRecipe_NoCascade(b, rs) == {}

\* Ingredient.measurement_unit, on_delete=PROTECT
IngredientsOfUnit(m) == {i \in DOMAIN ingredients : ingredients[i].measurement_unit = m}

\* Recipe.author, on_delete=CASCADE
RecipesOfAuthor(us) == {r \in DOMAIN recipes : recipes[r].author \in us}

\* RecipeTag.recipe and RecipeTag.tag, on_delete=CASCADE
RecipeTagsOfRecipe(rs) == {x \in DOMAIN recipe_tags : x.recipe \in rs}

RecipeTagsOfTag(t) == {x \in DOMAIN recipe_tags : x.tag = t}

\* RecipeIngredient.recipe and RecipeIngredient.ingredient, on_delete=CASCADE
RecipeIngredientsOfRecipe(rs) == {x \in DOMAIN recipe_ingredients : x.recipe \in rs}

RecipeIngredientsOfIngredient(i) == {x \in DOMAIN recipe_ingredients : x.ingredient = i}

\* BaseRecipeToUser.user and BaseRecipeToUser.recipe, on_delete=CASCADE,
\* inherited by FavoriteRecipe and ShoppingCart
RecipeToUserOfUser(b, us) == {x \in DOMAIN b : x.user \in us}

RecipeToUserOfRecipe(b, rs) == {x \in DOMAIN b : x.recipe \in rs}

(* ------------------------- unique constraints -------------------------- *)

TagUnique_NoSlug(self, n, c, s) ==
    \A t \in DOMAIN tags \ self : tags[t].name # n /\ tags[t].color # c

IngredientUnique_NameOnly(self, n, m) ==
    \A i \in DOMAIN ingredients \ self : ingredients[i].name # n

FavoriteUnique_UserOnly(u, r) == \A x \in DOMAIN favorites : x.user # u

\* Tag: name, color and slug are each declared unique=True
TagUnique(self, n, c, s) ==
    \A t \in DOMAIN tags \ self :
        /\ tags[t].name # n
        /\ tags[t].color # c
        /\ tags[t].slug # s

\* MeasurementUnit.name, unique=True
MeasurementUnitUnique(n) == \A m \in DOMAIN units : units[m].name # n

\* Ingredient.Meta: unique_ingredient on (name, measurement_unit)
IngredientUnique(self, n, m) ==
    \A i \in DOMAIN ingredients \ self :
        ~ (ingredients[i].name = n /\ ingredients[i].measurement_unit = m)

\* RecipeTag.Meta: unique_recipe_tag on (recipe, tag)
RecipeTagUnique(r, t) ==
    \A x \in DOMAIN recipe_tags : ~ (x.recipe = r /\ x.tag = t)

\* RecipeIngredient.Meta: unique_recipe_ingredient on (recipe, ingredient)
RecipeIngredientUnique(r, i) ==
    \A x \in DOMAIN recipe_ingredients : ~ (x.recipe = r /\ x.ingredient = i)

\* FavoriteRecipe.Meta: unique_favorite_recipe on (user, recipe)
FavoriteUnique(u, r) ==
    \A x \in DOMAIN favorites : ~ (x.user = u /\ x.recipe = r)

\* ShoppingCart.Meta: unique_shopping_cart_recipe on (user, recipe)
CartUnique(u, r) ==
    \A x \in DOMAIN carts : ~ (x.user = u /\ x.recipe = r)

(* ------------------------------ User ----------------------------------- *)

CreateUser ==
    /\ HasRoom
    /\ users # UserIds
    /\ users' = users \cup {NewId([u \in users |-> u], UserIds)}
    /\ last' = Outcome("CreateUser", "OK", 0)
    /\ UNCHANGED <<tags, units, ingredients, recipes,
                   recipe_tags, recipe_ingredients, favorites, carts>>

DeleteUser(u) ==
    /\ u \in users
    /\ LET rs == RecipesOfAuthor({u})
           rt == RecipeTagsOfRecipe(rs)
           ri == RecipeIngredientsOfRecipe(rs)
           fv == RecipeToUserOfUser(favorites, {u}) \cup RecipeToUserOfRecipe(favorites, rs)
           sc == RecipeToUserOfUser(carts, {u}) \cup RecipeToUserOfRecipe(carts, rs)
       IN  /\ users' = users \ {u}
           /\ recipes' = Drop(recipes, rs)
           /\ recipe_tags' = Drop(recipe_tags, rt)
           /\ recipe_ingredients' = Drop(recipe_ingredients, ri)
           /\ favorites' = Drop(favorites, fv)
           /\ carts' = Drop(carts, sc)
           /\ last' = Outcome("DeleteUser", "OK",
                              1 + Cardinality(rs) + Count(recipe_tags, rt)
                              + Count(recipe_ingredients, ri)
                              + Count(favorites, fv) + Count(carts, sc))
    /\ UNCHANGED <<tags, units, ingredients>>

(* ------------------------------- Tag ----------------------------------- *)

CreateTag(n, c, s) ==
    /\ HasRoom
    /\ DOMAIN tags # TagIds
    /\ IF ~ HEXColorValidator(c) THEN Fail("CreateTag", "ValidationError")
       ELSE IF ~ TagUnique({}, n, c, s) THEN Fail("CreateTag", "UniqueViolation")
       ELSE /\ tags' = Put(tags, NewId(tags, TagIds),
                           [name |-> n, color |-> c, slug |-> s])
            /\ last' = Outcome("CreateTag", "OK", 0)
            /\ UNCHANGED <<users, units, ingredients, recipes,
                           recipe_tags, recipe_ingredients, favorites, carts>>

UpdateTag(t, n, c, s) ==
    /\ t \in DOMAIN tags
    /\ IF ~ HEXColorValidator(c) THEN Fail("UpdateTag", "ValidationError")
       ELSE IF ~ TagUnique({t}, n, c, s) THEN Fail("UpdateTag", "UniqueViolation")
       ELSE /\ tags' = Put(tags, t, [name |-> n, color |-> c, slug |-> s])
            /\ last' = Outcome("UpdateTag", "OK", 0)
            /\ UNCHANGED <<users, units, ingredients, recipes,
                           recipe_tags, recipe_ingredients, favorites, carts>>

DeleteTag(t) ==
    /\ t \in DOMAIN tags
    /\ LET rt == RecipeTagsOfTag(t)
       IN  /\ tags' = Drop(tags, {t})
           /\ recipe_tags' = Drop(recipe_tags, rt)
           /\ last' = Outcome("DeleteTag", "OK", 1 + Count(recipe_tags, rt))
    /\ UNCHANGED <<users, units, ingredients, recipes,
                   recipe_ingredients, favorites, carts>>

(* -------------------------- MeasurementUnit ---------------------------- *)

CreateMeasurementUnit(n) ==
    /\ HasRoom
    /\ DOMAIN units # UnitIds
    /\ IF ~ MeasurementUnitUnique(n)
       THEN Fail("CreateMeasurementUnit", "UniqueViolation")
       ELSE /\ units' = Put(units, NewId(units, UnitIds), [name |-> n])
            /\ last' = Outcome("CreateMeasurementUnit", "OK", 0)
            /\ UNCHANGED <<users, tags, ingredients, recipes,
                           recipe_tags, recipe_ingredients, favorites, carts>>

DeleteMeasurementUnit(m) ==
    /\ m \in DOMAIN units
    /\ IF IngredientsOfUnit(m) # {}
       THEN Fail("DeleteMeasurementUnit", "ProtectedError")
       ELSE /\ units' = Drop(units, {m})
            /\ last' = Outcome("DeleteMeasurementUnit", "OK", 1)
            /\ UNCHANGED <<users, tags, ingredients, recipes,
                           recipe_tags, recipe_ingredients, favorites, carts>>

(* ----------------------------- Ingredient ------------------------------ *)

CreateIngredient(n, m) ==
    /\ HasRoom
    /\ DOMAIN ingredients # IngredientIds
    /\ IF m \notin DOMAIN units THEN Fail("CreateIngredient", "ForeignKeyViolation")
       ELSE IF ~ IngredientUnique({}, n, m) THEN Fail("CreateIngredient", "UniqueViolation")
       ELSE /\ ingredients' = Put(ingredients, NewId(ingredients, IngredientIds),
                                  [name |-> n, measurement_unit |-> m])
            /\ last' = Outcome("CreateIngredient", "OK", 0)
            /\ UNCHANGED <<users, tags, units, recipes,
                           recipe_tags, recipe_ingredients, favorites, carts>>

UpdateIngredient(i, n, m) ==
    /\ i \in DOMAIN ingredients
    /\ IF m \notin DOMAIN units THEN Fail("UpdateIngredient", "ForeignKeyViolation")
       ELSE IF ~ IngredientUnique({i}, n, m) THEN Fail("UpdateIngredient", "UniqueViolation")
       ELSE /\ ingredients' = Put(ingredients, i, [name |-> n, measurement_unit |-> m])
            /\ last' = Outcome("UpdateIngredient", "OK", 0)
            /\ UNCHANGED <<users, tags, units, recipes,
                           recipe_tags, recipe_ingredients, favorites, carts>>

DeleteIngredient(i) ==
    /\ i \in DOMAIN ingredients
    /\ LET ri == RecipeIngredientsOfIngredient(i)
       IN  /\ ingredients' = Drop(ingredients, {i})
           /\ recipe_ingredients' = Drop(recipe_ingredients, ri)
           /\ last' = Outcome("DeleteIngredient", "OK", 1 + Count(recipe_ingredients, ri))
    /\ UNCHANGED <<users, tags, units, recipes, recipe_tags, favorites, carts>>

(* ------------------------------- Recipe -------------------------------- *)

CreateRecipe(a, ct) ==
    /\ HasRoom
    /\ DOMAIN recipes # RecipeIds
    /\ IF ~ CookingTimeValid(ct) THEN Fail("CreateRecipe", "ValidationError")
       ELSE IF a \notin users THEN Fail("CreateRecipe", "ForeignKeyViolation")
       ELSE /\ recipes' = Put(recipes, NewId(recipes, RecipeIds),
                              [author |-> a, cooking_time |-> ct])
            /\ last' = Outcome("CreateRecipe", "OK", 0)
            /\ UNCHANGED <<users, tags, units, ingredients,
                           recipe_tags, recipe_ingredients, favorites, carts>>

UpdateRecipe(r, a, ct) ==
    /\ r \in DOMAIN recipes
    /\ IF ~ CookingTimeValid(ct) THEN Fail("UpdateRecipe", "ValidationError")
       ELSE IF a \notin users THEN Fail("UpdateRecipe", "ForeignKeyViolation")
       ELSE /\ recipes' = Put(recipes, r, [author |-> a, cooking_time |-> ct])
            /\ last' = Outcome("UpdateRecipe", "OK", 0)
            /\ UNCHANGED <<users, tags, units, ingredients,
                           recipe_tags, recipe_ingredients, favorites, carts>>

DeleteRecipe(r) ==
    /\ r \in DOMAIN recipes
    /\ LET rt == RecipeTagsOfRecipe({r})
           ri == RecipeIngredientsOfRecipe({r})
           fv == RecipeToUserOfRecipe(favorites, {r})
           sc == RecipeToUserOfRecipe(carts, {r})
       IN  /\ recipes' = Drop(recipes, {r})
           /\ recipe_tags' = Drop(recipe_tags, rt)
           /\ recipe_ingredients' = Drop(recipe_ingredients, ri)
           /\ favorites' = Drop(favorites, fv)
           /\ carts' = Drop(carts, sc)
           /\ last' = Outcome("DeleteRecipe", "OK",
                              1 + Count(recipe_tags, rt) + Count(recipe_ingredients, ri)
                              + Count(favorites, fv) + Count(carts, sc))
    /\ UNCHANGED <<users, tags, units, ingredients>>

(* ------------------------------ RecipeTag ------------------------------ *)

CreateRecipeTag(r, t) ==
    /\ HasRoom
    /\ IF r \notin DOMAIN recipes \/ t \notin DOMAIN tags
       THEN Fail("CreateRecipeTag", "ForeignKeyViolation")
       ELSE IF ~ RecipeTagUnique(r, t) THEN Fail("CreateRecipeTag", "UniqueViolation")
       ELSE /\ recipe_tags' = Insert(recipe_tags, [recipe |-> r, tag |-> t])
            /\ last' = Outcome("CreateRecipeTag", "OK", 0)
            /\ UNCHANGED <<users, tags, units, ingredients, recipes,
                           recipe_ingredients, favorites, carts>>

DeleteRecipeTag(x) ==
    /\ x \in DOMAIN recipe_tags
    /\ recipe_tags' = Remove(recipe_tags, x)
    /\ last' = Outcome("DeleteRecipeTag", "OK", 1)
    /\ UNCHANGED <<users, tags, units, ingredients, recipes,
                   recipe_ingredients, favorites, carts>>

(* --------------------------- RecipeIngredient -------------------------- *)

CreateRecipeIngredient(r, i, amount) ==
    /\ HasRoom
    /\ IF ~ AmountValid(amount) THEN Fail("CreateRecipeIngredient", "ValidationError")
       ELSE IF r \notin DOMAIN recipes \/ i \notin DOMAIN ingredients
       THEN Fail("CreateRecipeIngredient", "ForeignKeyViolation")
       ELSE IF ~ RecipeIngredientUnique(r, i)
       THEN Fail("CreateRecipeIngredient", "UniqueViolation")
       ELSE /\ recipe_ingredients' =
                   Insert(recipe_ingredients,
                          [recipe |-> r, ingredient |-> i, amount |-> amount])
            /\ last' = Outcome("CreateRecipeIngredient", "OK", 0)
            /\ UNCHANGED <<users, tags, units, ingredients, recipes,
                           recipe_tags, favorites, carts>>

UpdateRecipeIngredient(x, amount) ==
    /\ x \in DOMAIN recipe_ingredients
    /\ IF ~ AmountValid(amount) THEN Fail("UpdateRecipeIngredient", "ValidationError")
       ELSE /\ recipe_ingredients' =
                   Insert(Remove(recipe_ingredients, x), [x EXCEPT !.amount = amount])
            /\ last' = Outcome("UpdateRecipeIngredient", "OK", 0)
            /\ UNCHANGED <<users, tags, units, ingredients, recipes,
                           recipe_tags, favorites, carts>>

DeleteRecipeIngredient(x) ==
    /\ x \in DOMAIN recipe_ingredients
    /\ recipe_ingredients' = Remove(recipe_ingredients, x)
    /\ last' = Outcome("DeleteRecipeIngredient", "OK", 1)
    /\ UNCHANGED <<users, tags, units, ingredients, recipes,
                   recipe_tags, favorites, carts>>

(* --------------------- FavoriteRecipe / ShoppingCart ------------------- *)

CreateFavoriteRecipe(u, r) ==
    /\ HasRoom
    /\ IF u \notin users \/ r \notin DOMAIN recipes
       THEN Fail("CreateFavoriteRecipe", "ForeignKeyViolation")
       ELSE IF ~ FavoriteUnique(u, r) THEN Fail("CreateFavoriteRecipe", "UniqueViolation")
       ELSE /\ favorites' = Insert(favorites, [user |-> u, recipe |-> r])
            /\ last' = Outcome("CreateFavoriteRecipe", "OK", 0)
            /\ UNCHANGED <<users, tags, units, ingredients, recipes,
                           recipe_tags, recipe_ingredients, carts>>

DeleteFavoriteRecipe(x) ==
    /\ x \in DOMAIN favorites
    /\ favorites' = Remove(favorites, x)
    /\ last' = Outcome("DeleteFavoriteRecipe", "OK", 1)
    /\ UNCHANGED <<users, tags, units, ingredients, recipes,
                   recipe_tags, recipe_ingredients, carts>>

CreateShoppingCart(u, r) ==
    /\ HasRoom
    /\ IF u \notin users \/ r \notin DOMAIN recipes
       THEN Fail("CreateShoppingCart", "ForeignKeyViolation")
       ELSE IF ~ CartUnique(u, r) THEN Fail("CreateShoppingCart", "UniqueViolation")
       ELSE /\ carts' = Insert(carts, [user |-> u, recipe |-> r])
            /\ last' = Outcome("CreateShoppingCart", "OK", 0)
            /\ UNCHANGED <<users, tags, units, ingredients, recipes,
                           recipe_tags, recipe_ingredients, favorites>>

DeleteShoppingCart(x) ==
    /\ x \in DOMAIN carts
    /\ carts' = Remove(carts, x)
    /\ last' = Outcome("DeleteShoppingCart", "OK", 1)
    /\ UNCHANGED <<users, tags, units, ingredients, recipes,
                   recipe_tags, recipe_ingredients, favorites>>

(* --------------------------- specifications ---------------------------- *)

Color(v) == <<"#", HexDigits[v + 1], "0", "0">>

NotAColor == <<"r", "e", "d">>

Colors == {Color(v) : v \in Names} \cup {NotAColor}

CookingTimes == {-1, 0, 1, SmallIntMax + 1}

Amounts == 0..MaxAmount

Next ==
    \/ CreateUser
    \/ \E u \in UserIds : DeleteUser(u)
    \/ \E v \in TagIds : CreateTag(v, Color(v), v)
    \/ \E t \in TagIds, v \in TagIds : UpdateTag(t, v, Color(v), v)
    \/ \E t \in TagIds : DeleteTag(t)
    \/ \E n \in UnitIds : CreateMeasurementUnit(n)
    \/ \E m \in UnitIds : DeleteMeasurementUnit(m)
    \/ \E n \in IngredientIds, m \in UnitIds : CreateIngredient(n, m)
    \/ \E i \in IngredientIds, n \in IngredientIds, m \in UnitIds : UpdateIngredient(i, n, m)
    \/ \E i \in IngredientIds : DeleteIngredient(i)
    \/ \E a \in UserIds : CreateRecipe(a, 1)
    \/ \E r \in RecipeIds, a \in UserIds : UpdateRecipe(r, a, 1)
    \/ \E r \in RecipeIds : DeleteRecipe(r)
    \/ \E r \in RecipeIds, t \in TagIds : CreateRecipeTag(r, t)
    \/ \E x \in DOMAIN recipe_tags : DeleteRecipeTag(x)
    \/ \E r \in RecipeIds, i \in IngredientIds : CreateRecipeIngredient(r, i, 1)
    \/ \E x \in DOMAIN recipe_ingredients : UpdateRecipeIngredient(x, 1)
    \/ \E x \in DOMAIN recipe_ingredients : DeleteRecipeIngredient(x)
    \/ \E u \in UserIds, r \in RecipeIds : CreateFavoriteRecipe(u, r)
    \/ \E x \in DOMAIN favorites : DeleteFavoriteRecipe(x)
    \/ \E u \in UserIds, r \in RecipeIds : CreateShoppingCart(u, r)
    \/ \E x \in DOMAIN carts : DeleteShoppingCart(x)

\* every table, each caller passing well-formed field values
Spec == Init /\ [][Next]_vars

NextTag ==
    \/ \E n \in Names, c \in Colors, s \in Names : CreateTag(n, c, s)
    \/ \E t \in TagIds, n \in Names, c \in Colors, s \in Names : UpdateTag(t, n, c, s)
    \/ \E t \in TagIds : DeleteTag(t)

\* the Tag table alone, every combination of name, colour and slug
SpecTag == Init /\ [][NextTag]_vars

NextIngredient ==
    \/ \E n \in Names : CreateMeasurementUnit(n)
    \/ \E m \in UnitIds : DeleteMeasurementUnit(m)
    \/ \E n \in Names, m \in UnitIds : CreateIngredient(n, m)
    \/ \E i \in IngredientIds, n \in Names, m \in UnitIds : UpdateIngredient(i, n, m)
    \/ \E i \in IngredientIds : DeleteIngredient(i)

\* MeasurementUnit and Ingredient
SpecIngredient == Init /\ [][NextIngredient]_vars

NextRecipe ==
    \/ CreateUser
    \/ \E u \in UserIds : DeleteUser(u)
    \/ \E a \in UserIds, ct \in CookingTimes : CreateRecipe(a, ct)
    \/ \E r \in RecipeIds, a \in UserIds, ct \in CookingTimes : UpdateRecipe(r, a, ct)
    \/ \E r \in RecipeIds : DeleteRecipe(r)

\* User and Recipe, every cooking time
SpecRecipe == Init /\ [][NextRecipe]_vars

NextRecipeIngredient ==
    \/ CreateUser
    \/ \E a \in UserIds : CreateRecipe(a, 1)
    \/ \E n \in UnitIds : CreateMeasurementUnit(n)
    \/ \E n \in IngredientIds, m \in UnitIds : CreateIngredient(n, m)
    \/ \E r \in RecipeIds, i \in IngredientIds, amount \in Amounts :
           CreateRecipeIngredient(r, i, amount)
    \/ \E x \in DOMAIN recipe_ingredients, amount \in Amounts :
           UpdateRecipeIngredient(x, amount)
    \/ \E x \in DOMAIN recipe_ingredients : DeleteRecipeIngredient(x)

\* the Recipe-Ingredient association, every amount
SpecRecipeIngredient == Init /\ [][NextRecipeIngredient]_vars

NextRecipeToUser ==
    \/ CreateUser
    \/ \E a \in UserIds : CreateRecipe(a, 1)
    \/ \E u \in UserIds, r \in RecipeIds : CreateFavoriteRecipe(u, r)
    \/ \E x \in DOMAIN favorites : DeleteFavoriteRecipe(x)
    \/ \E u \in UserIds, r \in RecipeIds : CreateShoppingCart(u, r)
    \/ \E x \in DOMAIN carts : DeleteShoppingCart(x)

\* FavoriteRecipe and ShoppingCart
SpecRecipeToUser == Init /\ [][NextRecipeToUser]_vars

(* ------------------------------ properties ----------------------------- *)

\* c holds exactly the rows of b that Keep selects, as many copies of each
KeptExactly(b, c, Keep(_)) ==
    /\ DOMAIN c = {x \in DOMAIN b : Keep(x)}
    /\ \A x \in DOMAIN c : c[x] = b[x]

\* the rows of entity table t other than gone are those of u, unchanged
OthersKept(t, u, gone) ==
    /\ DOMAIN u = DOMAIN t \ gone
    /\ \A k \in DOMAIN u : u[k] = t[k]

\* C1: deleting a recipe r succeeds, removes r and every RecipeTag,
\* RecipeIngredient, FavoriteRecipe and ShoppingCart row whose recipe is r,
\* whoever owns it, and changes nothing else: the rows of other recipes, the
\* other recipes, and the users, tags, units and ingredients stay as they are.
C1_DeleteRecipeCascade ==
    [][\A r \in RecipeIds : DeleteRecipe(r) =>
          /\ last'.err = "OK"
          /\ OthersKept(recipes, recipes', {r})
          /\ KeptExactly(recipe_tags, recipe_tags', LAMBDA x : x.recipe # r)
          /\ KeptExactly(recipe_ingredients, recipe_ingredients', LAMBDA x : x.recipe # r)
          /\ KeptExactly(favorites, favorites', LAMBDA x : x.recipe # r)
          /\ KeptExactly(carts, carts', LAMBDA x : x.recipe # r)
          /\ UNCHANGED <<users, tags, units, ingredients>>]_vars

\* a recipe was deleted together with an association row of its own while a
\* row of another recipe stayed
C1_Witness ==
    /\ last.op = "DeleteRecipe"
    /\ last.err = "OK"
    /\ last.n >= 2
    /\ DOMAIN recipes # {}
    /\ DOMAIN recipe_tags \cup DOMAIN recipe_ingredients
         \cup DOMAIN favorites \cup DOMAIN carts # {}

\* C2: deleting a user u is possible whenever u exists and succeeds; it
\* removes u, the recipes u authored, the favorite and cart rows of u, and
\* every association, favorite and cart row of a recipe of u (other users'
\* rows included); other users' recipes and all tags, units and ingredients
\* remain.
C2_DeleteUserCascade ==
    [][/\ \A u \in users : ENABLED DeleteUser(u)
       /\ \A u \in UserIds : DeleteUser(u) =>
            LET gone == {r \in DOMAIN recipes : recipes[r].author = u}
            IN  /\ last'.err = "OK"
                /\ users' = users \ {u}
                /\ OthersKept(recipes, recipes', gone)
                /\ KeptExactly(recipe_tags, recipe_tags',
                               LAMBDA x : x.recipe \notin gone)
                /\ KeptExactly(recipe_ingredients, recipe_ingredients',
                               LAMBDA x : x.recipe \notin gone)
                /\ KeptExactly(favorites, favorites',
                               LAMBDA x : x.user # u /\ x.recipe \notin gone)
                /\ KeptExactly(carts, carts',
                               LAMBDA x : x.user # u /\ x.recipe \notin gone)
                /\ UNCHANGED <<tags, units, ingredients>>]_vars

\* a user was deleted with a recipe and a row hanging from it, while another
\* user's recipe stayed
C2_Witness ==
    /\ last.op = "DeleteUser"
    /\ last.err = "OK"
    /\ last.n >= 3
    /\ users # {}
    /\ DOMAIN recipes # {}

\* C3: deleting a measurement unit m can always be attempted; it fails with a
\* ProtectedError and changes nothing while some ingredient references m, and
\* otherwise succeeds and removes m alone.
C3_DeleteUnitProtected ==
    [][/\ \A m \in DOMAIN units : ENABLED DeleteMeasurementUnit(m)
       /\ \A m \in UnitIds : DeleteMeasurementUnit(m) =>
            IF \E i \in DOMAIN ingredients : ingredients[i].measurement_unit = m
            THEN last'.err = "ProtectedError" /\ UNCHANGED tables
            ELSE /\ last'.err = "OK"
                 /\ OthersKept(units, units', {m})
                 /\ UNCHANGED <<users, tags, ingredients, recipes, recipe_tags,
                                recipe_ingredients, favorites, carts>>]_vars

\* a deletion of a unit was refused while an ingredient referenced a unit
C3_Witness ==
    /\ last.op = "DeleteMeasurementUnit"
    /\ last.err = "ProtectedError"
    /\ DOMAIN ingredients # {}

\* C4: cooking time is a positive integer: a create or update of a recipe
\* with a cooking time of 0 or less is refused before anything is written, so
\* no recipe is stored with a cooking time below 1.
C4_CookingTimePositive ==
    \A r \in DOMAIN recipes : recipes[r].cooking_time >= 1

\* C5: creating (or updating) a RecipeIngredient with amount 0 fails validation
\* and changes nothing; creating one with amount 1 for an existing recipe and
\* ingredient not yet associated succeeds; every stored row has amount >= 1.
C5_AmountAtLeastOne ==
    [][/\ \A r \in RecipeIds, i \in IngredientIds :
            CreateRecipeIngredient(r, i, 0) =>
                last'.err = "ValidationError" /\ UNCHANGED tables
       /\ \A x \in DOMAIN recipe_ingredients :
            UpdateRecipeIngredient(x, 0) =>
                last'.err = "ValidationError" /\ UNCHANGED tables
       /\ \A r \in DOMAIN recipes, i \in DOMAIN ingredients :
            (/\ CreateRecipeIngredient(r, i, 1)
             /\ \A x \in DOMAIN recipe_ingredients :
                    ~ (x.recipe = r /\ x.ingredient = i)) =>
                /\ last'.err = "OK"
                /\ [recipe |-> r, ingredient |-> i, amount |-> 1]
                       \in DOMAIN recipe_ingredients'
       /\ \A x \in DOMAIN recipe_ingredients' : x.amount >= 1]_vars

\* an amount was refused by validation although a recipe and an ingredient
\* to associate are stored
C5_Witness ==
    /\ last.op = "CreateRecipeIngredient"
    /\ last.err = "ValidationError"
    /\ DOMAIN recipes # {}
    /\ DOMAIN ingredients # {}

\* C6: no two ingredients share (name, measurement_unit); a create or update
\* that would repeat an existing pair fails with a uniqueness error and changes
\* nothing, and one whose pair is new (same name with another unit, or same
\* unit with another name, included) succeeds.
C6_IngredientPairUnique ==
    [][/\ \A n \in Names, m \in UnitIds :
            CreateIngredient(n, m) =>
                IF \E i \in DOMAIN ingredients :
                       ingredients[i] = [name |-> n, measurement_unit |-> m]
                THEN last'.err = "UniqueViolation" /\ UNCHANGED tables
                ELSE m \in DOMAIN units =>
                       /\ last'.err = "OK"
                       /\ \E i \in DOMAIN ingredients' \ DOMAIN ingredients :
                              ingredients'[i] = [name |-> n, measurement_unit |-> m]
       /\ \A k \in IngredientIds, n \in Names, m \in UnitIds :
            UpdateIngredient(k, n, m) =>
                IF \E i \in DOMAIN ingredients \ {k} :
                       ingredients[i] = [name |-> n, measurement_unit |-> m]
                THEN last'.err = "UniqueViolation" /\ UNCHANGED tables
                ELSE m \in DOMAIN units =>
                       /\ last'.err = "OK"
                       /\ ingredients'[k] = [name |-> n, measurement_unit |-> m]
       /\ \A i, j \in DOMAIN ingredients' :
            i # j => ingredients'[i] # ingredients'[j]]_vars

\* two ingredients of one name and different units are stored, and a write
\* repeating a stored pair was refused
C6_Witness ==
    /\ last.op = "UpdateIngredient"
    /\ last.err = "UniqueViolation"
    /\ \E i, j \in DOMAIN ingredients :
          /\ ingredients[i].name = ingredients[j].name
          /\ ingredients[i].measurement_unit # ingredients[j].measurement_unit

\* C7: in FavoriteRecipe and in ShoppingCart alike, creating a row whose
\* (user, recipe) pair is already in that table fails with a uniqueness error
\* and changes nothing; a pair not in that table, of an existing user and
\* recipe, is stored whatever the other table holds; no pair is stored twice.
C7_RecipeToUserUnique ==
    [][/\ \A u \in UserIds, r \in RecipeIds :
            CreateFavoriteRecipe(u, r) =>
                IF [user |-> u, recipe |-> r] \in DOMAIN favorites
                THEN last'.err = "UniqueViolation" /\ UNCHANGED tables
                ELSE (u \in users /\ r \in DOMAIN recipes) =>
                       /\ last'.err = "OK"
                       /\ DOMAIN favorites' = DOMAIN favorites \cup {[user |-> u, recipe |-> r]}
                       /\ carts' = carts
       /\ \A u \in UserIds, r \in RecipeIds :
            CreateShoppingCart(u, r) =>
                IF [user |-> u, recipe |-> r] \in DOMAIN carts
                THEN last'.err = "UniqueViolation" /\ UNCHANGED tables
                ELSE (u \in users /\ r \in DOMAIN recipes) =>
                       /\ last'.err = "OK"
                       /\ DOMAIN carts' = DOMAIN carts \cup {[user |-> u, recipe |-> r]}
                       /\ favorites' = favorites
       /\ \A x \in DOMAIN favorites' : favorites'[x] = 1
       /\ \A x \in DOMAIN carts' : carts'[x] = 1]_vars

\* a pair is in both tables, and a second favorite for a stored pair was refused
C7_Witness ==
    /\ last.op = "CreateFavoriteRecipe"
    /\ last.err = "UniqueViolation"
    /\ \E x \in DOMAIN favorites : x \in DOMAIN carts

\* C8: no two tags share a name, a colour or a slug; a create or update with a
\* well-formed colour that repeats the name, the colour or the slug of another
\* tag fails with a uniqueness error and changes nothing, whatever its other
\* two fields are.
C8_TagFieldsUnique ==
    [][/\ \A n \in Names, c \in Colors, s \in Names :
            (/\ CreateTag(n, c, s)
             /\ HEXColorValidator(c)
             /\ \E t \in DOMAIN tags :
                    tags[t].name = n \/ tags[t].color = c \/ tags[t].slug = s) =>
                last'.err = "UniqueViolation" /\ UNCHANGED tables
       /\ \A k \in TagIds, n \in Names, c \in Colors, s \in Names :
            (/\ UpdateTag(k, n, c, s)
             /\ HEXColorValidator(c)
             /\ \E t \in DOMAIN tags \ {k} :
                    tags[t].name = n \/ tags[t].color = c \/ tags[t].slug = s) =>
                last'.err = "UniqueViolation" /\ UNCHANGED tables
       /\ \A i, j \in DOMAIN tags' :
            i # j => /\ tags'[i].name # tags'[j].name
                     /\ tags'[i].color # tags'[j].color
                     /\ tags'[i].slug # tags'[j].slug]_vars

\* a tag is stored and the creation of a second one was refused as a duplicate
C8_Witness ==
    /\ last.op = "CreateTag"
    /\ last.err = "UniqueViolation"
    /\ Cardinality(DOMAIN tags) = 1

\* C9: deleting a tag or an ingredient can always be attempted and succeeds;
\* deleting tag t removes t and exactly the RecipeTag rows of t, deleting
\* ingredient i removes i and exactly the RecipeIngredient rows of i; recipes,
\* every other association row, and the units stay as they are.
C9_DeleteTagOrIngredient ==
    [][/\ \A t \in DOMAIN tags : ENABLED DeleteTag(t)
       /\ \A i \in DOMAIN ingredients : ENABLED DeleteIngredient(i)
       /\ \A t \in TagIds : DeleteTag(t) =>
            /\ last'.err = "OK"
            /\ OthersKept(tags, tags', {t})
            /\ KeptExactly(recipe_tags, recipe_tags', LAMBDA x : x.tag # t)
            /\ UNCHANGED <<users, units, ingredients, recipes,
                           recipe_ingredients, favorites, carts>>
       /\ \A i \in IngredientIds : DeleteIngredient(i) =>
            /\ last'.err = "OK"
            /\ OthersKept(ingredients, ingredients', {i})
            /\ KeptExactly(recipe_ingredients, recipe_ingredients',
                           LAMBDA x : x.ingredient # i)
            /\ UNCHANGED <<users, tags, units, recipes,
                           recipe_tags, favorites, carts>>]_vars

\* an ingredient used by a recipe was deleted; the recipe and the unit stayed
C9_Witness ==
    /\ last.op = "DeleteIngredient"
    /\ last.err = "OK"
    /\ last.n >= 2
    /\ DOMAIN recipes # {}
    /\ DOMAIN units # {}

\* C10: every foreign key refers to a stored row: an ingredient's unit, a
\* recipe's author, the recipe and tag of a RecipeTag, the recipe and
\* ingredient of a RecipeIngredient, the user and recipe of a favorite or cart
\* row.
C10_ReferentialIntegrity ==
    /\ \A i \in DOMAIN ingredients : ingredients[i].measurement_unit \in DOMAIN units
    /\ \A r \in DOMAIN recipes : recipes[r].author \in users
    /\ \A x \in DOMAIN recipe_tags : x.recipe \in DOMAIN recipes /\ x.tag \in DOMAIN tags
    /\ \A x \in DOMAIN recipe_ingredients :
          x.recipe \in DOMAIN recipes /\ x.ingredient \in DOMAIN ingredients
    /\ \A x \in DOMAIN favorites : x.user \in users /\ x.recipe \in DOMAIN recipes
    /\ \A x \in DOMAIN carts : x.user \in users /\ x.recipe \in DOMAIN recipes

\* a user was deleted with a recipe, and favorite or cart rows are still stored
C10_Witness ==
    /\ last.op = "DeleteUser"
    /\ last.n >= 2
    /\ DOMAIN recipes # {}
    /\ DOMAIN favorites \cup DOMAIN carts # {}

====
